---------------------------- MODULE Spec2Model ----------------------------
(***************************************************************************)
(* JS-NeuralNetwork: the feed-forward network of src/ as a state machine.  *)
(*                                                                         *)
(* Numbers.  A JavaScript number is modelled exactly as a pair <<n, d>>:   *)
(* a normalised fraction n/d when d > 0, NaN as <<0, 0>>, +Infinity and    *)
(* -Infinity as <<1, 0>> and <<-1, 0>>, and JSON's null as <<0, -1>>       *)
(* (arithmetic coerces null to 0, as JavaScript does).  Rounding of        *)
(* doubles is not modelled.                                                *)
(*                                                                         *)
(* Sequences are 1-based: layer 1 is the source's layer 0 (input layer).   *)
(***************************************************************************)
EXTENDS Integers, Sequences, FiniteSets, TLC

(***************************************************************************)
(* Bounds of the exploration.                                              *)
(***************************************************************************)
\* public calls explored from the start of the program
MaxCalls == 3
\* a pass is explored only while every weight n/d has |n| <= MaxNum, d <= MaxDen
MaxNum == 20
MaxDen == 20
\* seeds a Prng built without a seed may pick
MaxRandomSeed == 1

(***************************************************************************)
(* JavaScript numbers                                                      *)
(***************************************************************************)
\* undefined, as one more value of the shape of a number
Undefined == <<0, 0 - 2>>

RECURSIVE GCD(_, _)
GCD(a, b) == IF b = 0 THEN a ELSE GCD(b, a % b)

Abs(i) == IF i < 0 THEN 0 - i ELSE i

Norm(n, d) == LET g == GCD(Abs(n), d) IN <<n \div g, d \div g>>

Zero == <<0, 1>>
One == <<1, 1>>
NaN == <<0, 0>>
PosInf == <<1, 0>>
NegInf == <<0 - 1, 0>>
Null == <<0, 0 - 1>>

Int2Num(i) == <<i, 1>>

\* ToNumber: null becomes 0
ToNumber(a) == IF a = Null THEN Zero ELSE a

IsFinite(a) == a[2] > 0

Sign(a) == IF a[1] > 0 THEN 1 ELSE IF a[1] < 0 THEN 0 - 1 ELSE 0

Neg(a) == <<0 - a[1], a[2]>>

AddNum(x, y) ==
    LET a == ToNumber(x)
        b == ToNumber(y)
    IN  IF IsFinite(a) /\ IsFinite(b)
        THEN LET g == GCD(a[2], b[2])
                 l == (a[2] \div g) * b[2]
             IN  Norm(a[1] * (l \div a[2]) + b[1] * (l \div b[2]), l)
        ELSE IF a = NaN \/ b = NaN THEN NaN
        ELSE IF IsFinite(a) THEN b
        ELSE IF IsFinite(b) THEN a
        ELSE IF a = b THEN a ELSE NaN

SubNum(x, y) == AddNum(x, Neg(ToNumber(y)))

MulNum(x, y) ==
    LET a == ToNumber(x)
        b == ToNumber(y)
    IN  IF IsFinite(a) /\ IsFinite(b)
        THEN Norm(a[1] * b[1], a[2] * b[2])
        ELSE IF a = NaN \/ b = NaN THEN NaN
        ELSE IF Sign(a) * Sign(b) > 0 THEN PosInf
        ELSE IF Sign(a) * Sign(b) < 0 THEN NegInf
        ELSE NaN

\* a / c for a count c >= 0 (error /= inputs.length * outputLayerSize)
DivByCount(x, c) ==
    LET a == ToNumber(x)
    IN  IF a = NaN THEN NaN
        ELSE IF c = 0 THEN (IF Sign(a) > 0 THEN PosInf
                            ELSE IF Sign(a) < 0 THEN NegInf ELSE NaN)
        ELSE IF IsFinite(a) THEN Norm(a[1], a[2] * c)
        ELSE a

\* a < b; every comparison with NaN is false
LtNum(a, b) ==
    IF a = NaN \/ b = NaN THEN FALSE
    ELSE IF IsFinite(a) /\ IsFinite(b) THEN a[1] * b[2] < b[1] * a[2]
    ELSE IF IsFinite(a) THEN b = PosInf
    ELSE IF IsFinite(b) THEN a = NegInf
    ELSE a = NegInf /\ b = PosInf

GtNum(a, b) == LtNum(b, a)

\* v || dflt : undefined, null, 0 and NaN are falsy
OrDefault(v, dflt) ==
    IF v = Undefined \/ v = Null \/ v = Zero \/ v = NaN THEN dflt ELSE v


(***************************************************************************)
(* Activation functions: [name, parameter].  Only the three functions      *)
(* whose values are rational are evaluated; the transcendental ones        *)
(* (ArcTangent, GaussianFunction, HyperbolicTangent, LogisticFunction,     *)
(* SinusoidFunction) exist as names and networks using them are built and  *)
(* serialized but never fed.                                               *)
(***************************************************************************)
Catalogue ==
    {"ArcTangent", "BinaryStep", "GaussianFunction", "HyperbolicTangent",
     "Identity", "LogisticFunction", "RectifiedLinearUnit", "SinusoidFunction"}

Evaluable == {"Identity", "BinaryStep", "RectifiedLinearUnit"}

ActivationFunction(name) == [name |-> name, parameter |-> Undefined]

\* this._parameter = parameter || 0
RectifiedLinearUnit(parameter) ==
    [name |-> "RectifiedLinearUnit", parameter |-> OrDefault(parameter, Zero)]

Identity == ActivationFunction("Identity")
BinaryStep == ActivationFunction("BinaryStep")
HyperbolicTangent == ActivationFunction("HyperbolicTangent")
\* an option that is not supplied
NoActivationFunction == ActivationFunction("undefined")

evaluate(af, x) ==
    CASE af.name = "Identity" -> x
      [] af.name = "BinaryStep" -> IF LtNum(x, Zero) THEN Zero ELSE One
      [] af.name = "RectifiedLinearUnit" ->
            IF LtNum(x, Zero) THEN MulNum(af.parameter, x) ELSE x

\* mutant: BinaryStep's derivative is 0 everywhere
evaluateDerivativeNoSentinel(af, x) ==
    CASE af.name = "Identity" -> One
      [] af.name = "BinaryStep" -> Zero
      [] af.name = "RectifiedLinearUnit" ->
            IF LtNum(x, Zero) THEN af.parameter ELSE One

evaluateDerivative(af, x) ==
    CASE af.name = "Identity" -> One
      [] af.name = "BinaryStep" -> IF x # Zero THEN Zero ELSE NaN
      [] af.name = "RectifiedLinearUnit" ->
            IF LtNum(x, Zero) THEN af.parameter ELSE One

\* ActivationFunction.prototype.toJSON: the constructor's name, nothing else
ActivationToJSON(af) == af.name

(***************************************************************************)
(* Connection, Neuron, Layer.  A network is                                *)
(*   [layers |-> <<layer>>, learningRate, seed]                            *)
(*   layer      = [neurons |-> <<neuron>>, activationFunction, kind]       *)
(*   neuron     = [input, activation, delta, connections |-> <<conn>>]     *)
(*   connection = [targetNeuron |-> <<layer index, neuron index>>,         *)
(*                 weight, weightUpdatePending]                            *)
(***************************************************************************)
Connection(targetNeuron, initialWeight) ==
    [targetNeuron |-> targetNeuron, weight |-> initialWeight,
     weightUpdatePending |-> Zero]

\* mutant: the update is applied at once whatever `immediate` says
ConnUpdateWeightAlwaysImmediate(c, addend, immediate) ==
    [c EXCEPT !.weight = AddNum(@, addend)]

\* Connection.prototype.updateWeight
ConnUpdateWeight(c, addend, immediate) ==
    IF immediate
    THEN [c EXCEPT !.weight = AddNum(@, addend)]
    ELSE [c EXCEPT !.weightUpdatePending = AddNum(@, addend)]

\* mutant: the release leaves the deferred amount in place
ConnReleaseKeepsPending(c) ==
    [c EXCEPT !.weight = AddNum(@, c.weightUpdatePending)]

\* Connection.prototype.releaseWeightUpdates
ConnReleaseWeightUpdates(c) ==
    [c EXCEPT !.weight = AddNum(@, c.weightUpdatePending),
              !.weightUpdatePending = Zero]

NewNeuron ==
    [input |-> Zero, activation |-> Zero, delta |-> Zero, connections |-> <<>>]

\* Layer / OutputLayer constructor: size neurons, no connection yet
NewLayer(size, activationFunction, kind) ==
    [neurons |-> [i \in 1..size |-> NewNeuron],
     activationFunction |-> activationFunction, kind |-> kind]

\* no network object
NoNetwork == [layers |-> <<>>, learningRate |-> Undefined, seed |-> Undefined]

NumLayers(n) == Len(n.layers)
LayerSize(n, k) == Len(n.layers[k].neurons)
NeuronAt(n, k, i) == n.layers[k].neurons[i]

\* mutant: the accumulated input survives the reset
NeuronResetActivationOnly(nr) == [nr EXCEPT !.activation = Zero]

\* Neuron.prototype.reset: delta is left alone
NeuronReset(nr) == [nr EXCEPT !.input = Zero, !.activation = Zero]

\* Layer.prototype.reset
LayerReset(l) ==
    [l EXCEPT !.neurons = [i \in DOMAIN l.neurons |-> NeuronReset(l.neurons[i])]]

\* NeuralNetwork.prototype.reset
NetworkReset(n) ==
    [n EXCEPT !.layers = [k \in DOMAIN n.layers |-> LayerReset(n.layers[k])]]

\* Neuron.prototype.feed on neuron i of layer k
NeuronFeed(n, k, i, value) ==
    [n EXCEPT !.layers[k].neurons[i].input = AddNum(@, value)]

\* the loop of Neuron.prototype.propagate from connection j on
RECURSIVE PropagateConnections(_, _, _, _)
PropagateConnections(n, k, i, j) ==
    IF j > Len(NeuronAt(n, k, i).connections) THEN n
    ELSE LET c == NeuronAt(n, k, i).connections[j]
             t == c.targetNeuron
         IN  PropagateConnections(
                 NeuronFeed(n, t[1], t[2],
                            MulNum(NeuronAt(n, k, i).activation, c.weight)),
                 k, i, j + 1)

\* mutant: the neuron feeds its targets before it evaluates its activation
NeuronPropagateStale(n, k, i) ==
    LET af == n.layers[k].activationFunction
        n1 == PropagateConnections(n, k, i, 1)
    IN  [n1 EXCEPT !.layers[k].neurons[i].activation =
                       evaluate(af, NeuronAt(n, k, i).input)]

\* Neuron.prototype.propagate
NeuronPropagate(n, k, i) ==
    LET af == n.layers[k].activationFunction
        n1 == [n EXCEPT !.layers[k].neurons[i].activation =
                            evaluate(af, NeuronAt(n, k, i).input)]
    IN  PropagateConnections(n1, k, i, 1)

\* Layer.prototype.propagateAllNeurons of layer k, from neuron i on
RECURSIVE PropagateAllNeurons(_, _, _)
PropagateAllNeurons(n, k, i) ==
    IF i > LayerSize(n, k) THEN n
    ELSE PropagateAllNeurons(NeuronPropagate(n, k, i), k, i + 1)

\* the last loop of _feed: every layer in index order, from layer k on
RECURSIVE PropagateLayers(_, _)
PropagateLayers(n, k) ==
    IF k > NumLayers(n) THEN n
    ELSE PropagateLayers(PropagateAllNeurons(n, k, 1), k + 1)

\* the loop of _feed that feeds input[i] into input neuron i
RECURSIVE FeedInputLayer(_, _, _)
FeedInputLayer(n, input, i) ==
    IF i > LayerSize(n, 1) THEN n
    ELSE FeedInputLayer(NeuronFeed(n, 1, i, input[i]), input, i + 1)

NoError == "none"
SizeMismatch == "SizeMismatch"
CountMismatch == "CountMismatch"
UnknownActivation == "UnknownActivation"

\* mutant: only an input that is too short is rejected
FeedShortOnly(n, input) ==
    LET n1 == NetworkReset(n)
    IN  IF Len(input) < LayerSize(n1, 1)
        THEN [net |-> n1, thrown |-> SizeMismatch]
        ELSE [net |-> PropagateLayers(FeedInputLayer(n1, input, 1), 1),
              thrown |-> NoError]

\* FeedforwardNeuralNetwork.prototype._feed: reset, then validate, then feed
Feed(n, input) ==
    LET n1 == NetworkReset(n)
    IN  IF Len(input) # LayerSize(n1, 1)
        THEN [net |-> n1, thrown |-> SizeMismatch]
        ELSE [net |-> PropagateLayers(FeedInputLayer(n1, input, 1), 1),
              thrown |-> NoError]

\* NeuralNetwork.prototype._getOutput
GetOutput(n) ==
    [i \in 1..LayerSize(n, NumLayers(n)) |->
        NeuronAt(n, NumLayers(n), i).activation]

\* NeuralNetwork.prototype.predict
Predict(n, input) ==
    LET f == Feed(n, input)
    IN  IF f.thrown # NoError
        THEN [net |-> f.net, thrown |-> f.thrown, value |-> <<>>]
        ELSE [net |-> f.net, thrown |-> NoError, value |-> GetOutput(f.net)]

(***************************************************************************)
(* Backpropagation                                                         *)
(***************************************************************************)
\* OutputNeuron.prototype.calculateError
OutputNeuronCalculateError(nr, desiredOutput) ==
    SubNum(desiredOutput, nr.activation)

\* OutputNeuron.prototype.updateDelta on output neuron i
OutputNeuronUpdateDelta(n, i, desiredOutput) ==
    LET k == NumLayers(n)
        nr == NeuronAt(n, k, i)
    IN  [n EXCEPT !.layers[k].neurons[i].delta =
            MulNum(evaluateDerivative(n.layers[k].activationFunction, nr.input),
                   OutputNeuronCalculateError(nr, desiredOutput))]

\* the loop of OutputLayer.prototype.updateDeltas, from neuron i on
RECURSIVE OutputLayerUpdateDeltasFrom(_, _, _)
OutputLayerUpdateDeltasFrom(n, desiredOutput, i) ==
    IF i > LayerSize(n, NumLayers(n)) THEN n
    ELSE OutputLayerUpdateDeltasFrom(
             OutputNeuronUpdateDelta(n, i, desiredOutput[i]), desiredOutput, i + 1)

\* mutant: a desired output that is too long is noticed after the deltas
\* have been updated
OutputLayerUpdateDeltasLate(n, desiredOutput) ==
    IF Len(desiredOutput) < LayerSize(n, NumLayers(n))
    THEN [net |-> n, thrown |-> SizeMismatch]
    ELSE [net |-> OutputLayerUpdateDeltasFrom(n, desiredOutput, 1),
          thrown |-> IF Len(desiredOutput) = LayerSize(n, NumLayers(n))
                     THEN NoError ELSE SizeMismatch]

\* OutputLayer.prototype.updateDeltas: validate, then update every delta
OutputLayerUpdateDeltas(n, desiredOutput) ==
    IF Len(desiredOutput) # LayerSize(n, NumLayers(n))
    THEN [net |-> n, thrown |-> SizeMismatch]
    ELSE [net |-> OutputLayerUpdateDeltasFrom(n, desiredOutput, 1),
          thrown |-> NoError]

\* Connection.prototype.getWeightedDelta
GetWeightedDelta(n, c) ==
    MulNum(NeuronAt(n, c.targetNeuron[1], c.targetNeuron[2]).delta, c.weight)

\* Neuron.prototype.calculateError: the sum from connection j on, added to acc
RECURSIVE NeuronCalculateError(_, _, _, _, _)
NeuronCalculateError(n, k, i, j, acc) ==
    IF j > Len(NeuronAt(n, k, i).connections) THEN acc
    ELSE NeuronCalculateError(n, k, i, j + 1,
             AddNum(acc, GetWeightedDelta(n, NeuronAt(n, k, i).connections[j])))

\* Neuron.prototype.updateDelta
NeuronUpdateDelta(n, k, i) ==
    [n EXCEPT !.layers[k].neurons[i].delta =
        MulNum(evaluateDerivative(n.layers[k].activationFunction,
                                  NeuronAt(n, k, i).input),
               NeuronCalculateError(n, k, i, 1, Zero))]

\* Layer.prototype.updateDeltas of layer k, from neuron i on
RECURSIVE LayerUpdateDeltas(_, _, _)
LayerUpdateDeltas(n, k, i) ==
    IF i > LayerSize(n, k) THEN n
    ELSE LayerUpdateDeltas(NeuronUpdateDelta(n, k, i), k, i + 1)

\* the loop of _backpropagate: hidden layers, from layerIndex down to the
\* first hidden layer (layer 2 here, index 1 in the source)
RECURSIVE BackpropagateHidden(_, _)
BackpropagateHidden(n, layerIndex) ==
    IF layerIndex < 2 THEN n
    ELSE BackpropagateHidden(LayerUpdateDeltas(n, layerIndex, 1), layerIndex - 1)

\* mutant: the hidden layers are updated before the output layer
BackpropagateHiddenFirst(n, desiredOutput) ==
    OutputLayerUpdateDeltas(BackpropagateHidden(n, NumLayers(n) - 1), desiredOutput)

\* NeuralNetwork.prototype._backpropagate
Backpropagate(n, desiredOutput) ==
    LET o == OutputLayerUpdateDeltas(n, desiredOutput)
    IN  IF o.thrown # NoError THEN o
        ELSE [net |-> BackpropagateHidden(o.net, NumLayers(n) - 1),
              thrown |-> NoError]

\* OutputLayer.prototype.calculateSumSquaredError, from neuron i on
RECURSIVE CalculateSumSquaredErrorFrom(_, _, _, _)
CalculateSumSquaredErrorFrom(n, desiredOutput, i, squaredErrors) ==
    IF i > LayerSize(n, NumLayers(n)) THEN squaredErrors
    ELSE LET error == OutputNeuronCalculateError(
                          NeuronAt(n, NumLayers(n), i), desiredOutput[i])
         IN  CalculateSumSquaredErrorFrom(n, desiredOutput, i + 1,
                 AddNum(squaredErrors, MulNum(error, error)))

CalculateSumSquaredError(n, desiredOutput) ==
    CalculateSumSquaredErrorFrom(n, desiredOutput, 1, Zero)

(***************************************************************************)
(* Weight updates                                                          *)
(***************************************************************************)
\* Neuron.prototype.updateWeightsAtConnections, from connection j on
RECURSIVE UpdateWeightsAtConnections(_, _, _, _, _, _)
UpdateWeightsAtConnections(n, k, i, j, learningRate, immediate) ==
    IF j > Len(NeuronAt(n, k, i).connections) THEN n
    ELSE LET c == NeuronAt(n, k, i).connections[j]
             t == c.targetNeuron
             update == MulNum(MulNum(learningRate, NeuronAt(n, t[1], t[2]).delta),
                              NeuronAt(n, k, i).activation)
         IN  UpdateWeightsAtConnections(
                 [n EXCEPT !.layers[k].neurons[i].connections[j] =
                               ConnUpdateWeight(c, update, immediate)],
                 k, i, j + 1, learningRate, immediate)

\* Layer.prototype.updateWeightsInLayer of layer k, from neuron i on
RECURSIVE UpdateWeightsInLayer(_, _, _, _, _)
UpdateWeightsInLayer(n, k, i, learningRate, immediate) ==
    IF i > LayerSize(n, k) THEN n
    ELSE UpdateWeightsInLayer(
             UpdateWeightsAtConnections(n, k, i, 1, learningRate, immediate),
             k, i + 1, learningRate, immediate)

\* NeuralNetwork.prototype._updateWeightsInNetwork: every layer but the last
RECURSIVE UpdateWeightsFromLayer(_, _, _)
UpdateWeightsFromLayer(n, k, immediate) ==
    IF k > NumLayers(n) - 1 THEN n
    ELSE UpdateWeightsFromLayer(
             UpdateWeightsInLayer(n, k, 1, n.learningRate, immediate),
             k + 1, immediate)

\* mutant: every update is deferred, whatever `immediate` says
UpdateWeightsInNetworkDeferred(n, immediate) == UpdateWeightsFromLayer(n, 1, FALSE)

UpdateWeightsInNetwork(n, immediate) == UpdateWeightsFromLayer(n, 1, immediate)

\* Neuron.prototype.releaseWeightUpdatesAtConnections
ReleaseWeightUpdatesAtConnections(nr) ==
    [nr EXCEPT !.connections =
        [j \in DOMAIN nr.connections |-> ConnReleaseWeightUpdates(nr.connections[j])]]

\* Layer.prototype.releaseWeightUpdatesInLayer
ReleaseWeightUpdatesInLayer(l) ==
    [l EXCEPT !.neurons =
        [i \in DOMAIN l.neurons |-> ReleaseWeightUpdatesAtConnections(l.neurons[i])]]

\* NeuralNetwork.prototype._releaseWeightUpdatesInNetwork: every layer but the last
ReleaseWeightUpdatesInNetwork(n) ==
    [n EXCEPT !.layers =
        [k \in DOMAIN n.layers |->
            IF k <= NumLayers(n) - 1
            THEN ReleaseWeightUpdatesInLayer(n.layers[k])
            ELSE n.layers[k]]]

(***************************************************************************)
(* Online training                                                         *)
(***************************************************************************)
\* NeuralNetwork.prototype.train
Train(n, input, desiredOutput) ==
    LET f == Feed(n, input)
    IN  IF f.thrown # NoError
        THEN [net |-> f.net, thrown |-> f.thrown, value |-> Undefined]
        ELSE LET b == Backpropagate(f.net, desiredOutput)
             IN  IF b.thrown # NoError
                 THEN [net |-> b.net, thrown |-> b.thrown, value |-> Undefined]
                 ELSE LET sumSquaredError ==
                              CalculateSumSquaredError(b.net, desiredOutput)
                      IN  [net |-> UpdateWeightsInNetwork(b.net, TRUE),
                           thrown |-> NoError,
                           value |-> DivByCount(sumSquaredError,
                                                LayerSize(n, NumLayers(n)))]

(***************************************************************************)
(* Construction.  The Prng (@delight-im/prng) is an external collaborator: *)
(* its getRandomFloat(0, 0.3) is a function of the seed and of the number  *)
(* of draws made so far, with values 0.05, 0.15 and 0.25.  A Prng built    *)
(* without a seed picks one itself (the entropy argument).                 *)
(***************************************************************************)
DefaultLearningRate == <<3, 10>>
WeightOffset == <<3, 20>>

PrngFloat(seed, draws) == Norm(1 + 2 * ((seed[1] + draws) % 3), 20)

\* mutant: a neuron is connected to the first neuron of the next layer only
ConnectToFirstTargetOnly(st, i, k, m) ==
    IF m > 1 THEN st
    ELSE LET q == st.queue
             fromQueue == Len(q) > 0
             initialWeight == IF fromQueue THEN q[Len(q)]
                              ELSE SubNum(PrngFloat(st.prngSeed, st.draws), WeightOffset)
         IN  [st EXCEPT
                 !.net.layers[i - 1].neurons[k].connections =
                     Append(@, Connection(<<i, m>>, initialWeight)),
                 !.queue = IF fromQueue THEN SubSeq(q, 1, Len(q) - 1) ELSE q,
                 !.draws = IF fromQueue THEN @ ELSE @ + 1]

\* a construction in progress: the network, the process-wide queue
\* Neuron.preDefinedWeights, the Prng's seed and its number of draws
\* Neuron.prototype.connectTo, called on neuron k of layer i - 1 with target
\* neuron m of layer i
ConnectTo(st, i, k, m) ==
    LET q == st.queue
        fromQueue == Len(q) > 0
        initialWeight == IF fromQueue THEN q[Len(q)]
                         ELSE SubNum(PrngFloat(st.prngSeed, st.draws), WeightOffset)
    IN  [st EXCEPT
            !.net.layers[i - 1].neurons[k].connections =
                Append(@, Connection(<<i, m>>, initialWeight)),
            !.queue = IF fromQueue THEN SubSeq(q, 1, Len(q) - 1) ELSE q,
            !.draws = IF fromQueue THEN @ ELSE @ + 1]

\* FeedforwardNeuralNetwork.prototype._createConnections: layer pairs outer,
\* neurons of the previous layer next, neurons of the current layer inner
RECURSIVE CreateConnectionsFrom(_, _, _, _)
CreateConnectionsFrom(st, i, k, m) ==
    IF i > NumLayers(st.net) THEN st
    ELSE IF k > LayerSize(st.net, i - 1) THEN CreateConnectionsFrom(st, i + 1, 1, 1)
    ELSE IF m > LayerSize(st.net, i) THEN CreateConnectionsFrom(st, i, k + 1, 1)
    ELSE CreateConnectionsFrom(ConnectTo(st, i, k, m), i, k, m + 1)

CreateConnections(st) == CreateConnectionsFrom(st, 2, 1, 1)

\* options.seed || undefined
SeedOption(seed) == OrDefault(seed, Undefined)

\* mutant: the hidden layers are given the output layer's function
NeuralNetworkOneFunction(inputNeurons, hiddenNeurons, outputNeurons, options) ==
    LET outputAF == IF options.outputLayerActivationFunction = NoActivationFunction
                    THEN HyperbolicTangent
                    ELSE options.outputLayerActivationFunction
    IN  [layers |->
             <<NewLayer(inputNeurons, Identity, "Layer")>>
             \o [h \in 1..Len(hiddenNeurons) |->
                    NewLayer(hiddenNeurons[h], outputAF, "Layer")]
             \o <<NewLayer(outputNeurons, outputAF, "OutputLayer")>>,
         learningRate |-> OrDefault(options.learningRate, DefaultLearningRate),
         seed |-> SeedOption(options.seed)]

\* NeuralNetwork constructor: the layers and the options
NeuralNetwork(inputNeurons, hiddenNeurons, outputNeurons, options) ==
    LET hiddenAF == IF options.hiddenLayerActivationFunction = NoActivationFunction
                    THEN HyperbolicTangent
                    ELSE options.hiddenLayerActivationFunction
        outputAF == IF options.outputLayerActivationFunction = NoActivationFunction
                    THEN HyperbolicTangent
                    ELSE options.outputLayerActivationFunction
    IN  [layers |->
             <<NewLayer(inputNeurons, Identity, "Layer")>>
             \o [h \in 1..Len(hiddenNeurons) |->
                    NewLayer(hiddenNeurons[h], hiddenAF, "Layer")]
             \o <<NewLayer(outputNeurons, outputAF, "OutputLayer")>>,
         learningRate |-> OrDefault(options.learningRate, DefaultLearningRate),
         seed |-> SeedOption(options.seed)]

\* FeedforwardNeuralNetwork constructor; yields [net, queue]
FeedforwardNeuralNetwork(inputNeurons, hiddenNeurons, outputNeurons, options, queue, entropy) ==
    LET n == NeuralNetwork(inputNeurons, hiddenNeurons, outputNeurons, options)
        st == CreateConnections(
                  [net |-> n, queue |-> queue, draws |-> 0,
                   prngSeed |-> IF n.seed = Undefined THEN entropy ELSE n.seed])
    IN  [net |-> st.net, queue |-> st.queue, draws |-> st.draws]

(***************************************************************************)
(* Serialization                                                           *)
(***************************************************************************)
\* JSON.stringify writes NaN and the infinities as null
JsonNumber(a) == IF IsFinite(a) THEN a ELSE Null

\* Connection / Neuron / Layer .prototype.toJSON
NeuronToJSON(nr) ==
    [connections |->
        [j \in DOMAIN nr.connections |->
            [weight |-> JsonNumber(nr.connections[j].weight)]]]

LayerToJSON(l) ==
    [neurons |-> [i \in DOMAIN l.neurons |-> NeuronToJSON(l.neurons[i])],
     activationFunction |-> ActivationToJSON(l.activationFunction)]

\* NeuralNetwork.prototype.toJSON as read back by JSON.parse(JSON.stringify(n)):
\* an undefined seed is left out of the text
Stringify(n) ==
    [layers |-> [k \in DOMAIN n.layers |-> LayerToJSON(n.layers[k])],
     learningRate |-> JsonNumber(n.learningRate),
     seed |-> n.seed]

RECURSIVE FlattenArray(_)
FlattenArray(arr) ==
    IF Len(arr) = 0 THEN <<>> ELSE Head(arr) \o FlattenArray(Tail(arr))

\* createWeightsListFromLayer
CreateWeightsListFromLayer(layerObj) ==
    FlattenArray([i \in DOMAIN layerObj.neurons |->
        [j \in DOMAIN layerObj.neurons[i].connections |->
            layerObj.neurons[i].connections[j].weight]])

\* mutant: the switch has no case for Identity
CreateActivationFunctionNoIdentity(name) ==
    IF name \notin Catalogue \ {"Identity"} THEN NoActivationFunction
    ELSE IF name = "RectifiedLinearUnit" THEN RectifiedLinearUnit(Undefined)
    ELSE ActivationFunction(name)

\* createActivationFunctionFromName; NoActivationFunction stands for the throw
CreateActivationFunctionFromName(name) ==
    IF name \notin Catalogue THEN NoActivationFunction
    ELSE IF name = "RectifiedLinearUnit" THEN RectifiedLinearUnit(Undefined)
    ELSE ActivationFunction(name)

\* FeedforwardNeuralNetwork.fromJson on a parsed document with >= 2 layers;
\* yields [net, queue, thrown]
FromJson(data, entropy) ==
    LET L == Len(data.layers)
        inputLayer == data.layers[1]
        outputLayer == data.layers[L]
        hiddenLayers == SubSeq(data.layers, 2, L - 1)
        inputWeights == CreateWeightsListFromLayer(inputLayer)
        outputWeights == CreateWeightsListFromLayer(outputLayer)
        hiddenWeights ==
            FlattenArray([h \in DOMAIN hiddenLayers |->
                             CreateWeightsListFromLayer(hiddenLayers[h])])
        allWeights == inputWeights \o hiddenWeights \o outputWeights
        hiddenName == IF Len(hiddenLayers) > 0
                      THEN hiddenLayers[1].activationFunction ELSE "Identity"
        hiddenAF == CreateActivationFunctionFromName(hiddenName)
        outputAF == CreateActivationFunctionFromName(outputLayer.activationFunction)
    IN  IF hiddenAF = NoActivationFunction \/ outputAF = NoActivationFunction
        THEN [net |-> NoNetwork, queue |-> allWeights, thrown |-> UnknownActivation]
        ELSE LET r == FeedforwardNeuralNetwork(
                          Len(inputLayer.neurons),
                          [h \in DOMAIN hiddenLayers |-> Len(hiddenLayers[h].neurons)],
                          Len(outputLayer.neurons),
                          [seed |-> data.seed,
                           learningRate |-> data.learningRate,
                           hiddenLayerActivationFunction |-> hiddenAF,
                           outputLayerActivationFunction |-> outputAF],
                          allWeights, entropy)
             IN  [net |-> r.net, queue |-> r.queue, thrown |-> NoError]

(***************************************************************************)
(* The program: one network object `net` (NoNetwork until one is built),   *)
(* the process-wide queue Neuron.preDefinedWeights, and the caller, who    *)
(* makes one public call at a time.  `last` records the last finished (or, *)
(* for trainBatch, running) call, `pre` the network as it was when that    *)
(* call started, `batch` the position of a running trainBatch.             *)
(***************************************************************************)
VARIABLES net, preDefinedWeights, last, pre, batch, calls

vars == <<net, preDefinedWeights, last, pre, batch, calls>>

HasNet(n) == Len(n.layers) > 0

\* the connections of n: <<layer, neuron, index in the neuron's list>>
Connections(n) ==
    UNION {UNION {{<<k, i, j>> : j \in DOMAIN n.layers[k].neurons[i].connections} :
                     i \in DOMAIN n.layers[k].neurons} :
              k \in DOMAIN n.layers}

ConnectionAt(n, c) == n.layers[c[1]].neurons[c[2]].connections[c[3]]

Small(a) == IsFinite(a) => (Abs(a[1]) <= MaxNum /\ a[2] <= MaxDen)

\* a pass over n can be computed: its functions are evaluable and its
\* weights are within the bounds
Ready(n) ==
    /\ HasNet(n)
    /\ \A k \in DOMAIN n.layers : n.layers[k].activationFunction.name \in Evaluable
    /\ \A k \in DOMAIN n.layers : \A i \in DOMAIN n.layers[k].neurons :
         \A j \in DOMAIN n.layers[k].neurons[i].connections :
            LET c == n.layers[k].neurons[i].connections[j]
            IN  Small(c.weight) /\ Small(c.weightUpdatePending)

Idle == [active |-> FALSE]

(***************************************************************************)
(* The caller's inputs                                                     *)
(***************************************************************************)
Half == <<1, 2>>

\* inputNeurons, hiddenNeurons, outputNeurons
Topologies == {<<2, <<>>, 1>>, <<1, <<1>>, 1>>, <<1, <<>>, 2>>}

Options(seed, learningRate, hiddenAF, outputAF) ==
    [seed |-> seed, learningRate |-> learningRate,
     hiddenLayerActivationFunction |-> hiddenAF,
     outputLayerActivationFunction |-> outputAF]

OptionBags ==
    {Options(Undefined, Undefined, NoActivationFunction, NoActivationFunction),
     Options(One, One, Identity, Identity),
     Options(Int2Num(2), Undefined, Identity, Identity),
     Options(Zero, Zero, Identity, Identity),
     Options(One, One, RectifiedLinearUnit(Half), BinaryStep)}

InputVectors == {<<One>>, <<Zero, One>>, <<One, One>>}
DesiredVectors == {<<Zero>>, <<One>>, <<One, Zero>>}

\* a document with integer weights: layer sizes 2-1, learning rate 1
DocFlat ==
    [layers |->
        <<[neurons |-> <<[connections |-> <<[weight |-> Int2Num(2)]>>],
                         [connections |-> <<[weight |-> One]>>]>>,
           activationFunction |-> "Identity"],
          [neurons |-> <<[connections |-> <<>>]>>,
           activationFunction |-> "Identity"]>>,
     learningRate |-> One, seed |-> Undefined]

\* a document with two hidden layers, sizes 1-1-1-1, whose second hidden
\* layer names a function outside the catalogue
DocDeep ==
    [layers |->
        <<[neurons |-> <<[connections |-> <<[weight |-> One]>>]>>,
           activationFunction |-> "Identity"],
          [neurons |-> <<[connections |-> <<[weight |-> Int2Num(2)]>>]>>,
           activationFunction |-> "Identity"],
          [neurons |-> <<[connections |-> <<[weight |-> One]>>]>>,
           activationFunction |-> "Custom"],
          [neurons |-> <<[connections |-> <<>>]>>,
           activationFunction |-> "Identity"]>>,
     learningRate |-> One, seed |-> One]

\* a document, layer sizes 2-1, learning rate 1, whose network is close to
\* the function (a, b) -> a
DocNear ==
    [layers |->
        <<[neurons |-> <<[connections |-> <<[weight |-> Zero]>>],
                         [connections |-> <<[weight |-> <<9, 10>>]>>]>>,
           activationFunction |-> "Identity"],
          [neurons |-> <<[connections |-> <<>>]>>,
           activationFunction |-> "Identity"]>>,
     learningRate |-> One, seed |-> Undefined]

Tamper(doc, k, name) == [doc EXCEPT !.layers[k].activationFunction = name]

\* what the caller may hand to fromJson: the current network's own text, that
\* text with one layer's function name replaced, or a document written by hand
Documents(n) ==
    {DocFlat, DocDeep, DocNear}
    \cup (IF HasNet(n)
          THEN {Stringify(n)}
               \cup {Tamper(Stringify(n), k, "Custom") : k \in 1..NumLayers(n)}
          ELSE {})

BatchArgs(inputs, desiredOutputs, iterations, errorThreshold) ==
    [inputs |-> inputs, desiredOutputs |-> desiredOutputs,
     iterations |-> iterations, errorThreshold |-> errorThreshold]

BatchCalls ==
    {BatchArgs(<<x>>, <<d>>, it, Undefined) :
        x \in {<<One>>, <<One, One>>}, d \in {<<One>>, <<One, Zero>>},
        it \in {Undefined, Zero, One}}
    \cup {BatchArgs(<<<<Zero, One>>, <<One, One>>>>, <<<<Zero>>, <<One>>>>, it, Zero) :
             it \in {One, Int2Num(2)}}
    \cup {BatchArgs(<<<<One>>, <<One>>>>, <<<<One>>, <<Zero>>>>, One, Undefined),
          BatchArgs(<<<<One>>, <<One, One>>>>, <<<<One>>, <<One>>>>, One, Undefined),
          BatchArgs(<<<<One, One>>, <<One>>>>, <<<<One>>, <<One>>>>, One, Undefined),
          BatchArgs(<<<<One>>>>, <<<<One>>, <<Zero>>>>, One, Undefined),
          BatchArgs(<<>>, <<>>, One, Undefined)}

(***************************************************************************)
(* Public calls                                                            *)
(***************************************************************************)
DefaultErrorThreshold == <<1, 200>>

Init ==
    /\ net = NoNetwork
    /\ preDefinedWeights = <<>>
    /\ last = [op |-> "none", args |-> <<>>, thrown |-> NoError, value |-> Undefined]
    /\ pre = NoNetwork
    /\ batch = Idle
    /\ calls = 0

CanCall == ~batch.active /\ calls < MaxCalls

\* the seeds the Prng of a new network may start from: the one given, or
\* any it may pick itself when none is given
Entropy(seed) ==
    IF SeedOption(seed) = Undefined THEN {Int2Num(e) : e \in 0..MaxRandomSeed}
    ELSE {Zero}

\* new NeuralNetwork.Type.Feedforward(inputNeurons, hiddenNeurons, outputNeurons, options)
\* (the new object did not exist before the call: pre is NoNetwork)
Construct ==
    /\ CanCall
    /\ \E t \in Topologies, o \in OptionBags :
       \E entropy \in Entropy(o.seed) :
         LET r == FeedforwardNeuralNetwork(t[1], t[2], t[3], o, preDefinedWeights,
                                           entropy)
         IN  /\ net' = r.net
             /\ preDefinedWeights' = r.queue
             /\ last' = [op |-> "construct", args |-> [topology |-> t, options |-> o],
                         thrown |-> NoError, value |-> Undefined, draws |-> r.draws]
    /\ pre' = NoNetwork
    /\ batch' = batch
    /\ calls' = calls + 1

\* NeuralNetwork.Type.Feedforward.fromJson(jsonString)
FromJsonCall ==
    /\ CanCall
    /\ \E doc \in Documents(net) :
       \E entropy \in Entropy(doc.seed) :
         LET own == HasNet(net) /\ doc = Stringify(net)
             r == FromJson(doc, entropy)
         IN  /\ net' = IF r.thrown = NoError THEN r.net ELSE net
             /\ preDefinedWeights' = r.queue
             /\ last' = [op |-> "fromJson", args |-> [doc |-> doc, own |-> own],
                         thrown |-> r.thrown, value |-> Undefined]
    /\ pre' = net
    /\ batch' = batch
    /\ calls' = calls + 1

\* network.predict(input)
PredictCall ==
    /\ CanCall
    /\ Ready(net)
    /\ \E input \in InputVectors :
         LET r == Predict(net, input)
         IN  /\ net' = r.net
             /\ last' = [op |-> "predict", args |-> [input |-> input],
                         thrown |-> r.thrown, value |-> r.value]
    /\ pre' = net
    /\ calls' = calls + 1
    /\ UNCHANGED <<preDefinedWeights, batch>>

\* network.train(input, desiredOutput)
TrainCall ==
    /\ CanCall
    /\ Ready(net)
    /\ \E input \in InputVectors, desiredOutput \in DesiredVectors :
         LET r == Train(net, input, desiredOutput)
         IN  /\ net' = r.net
             /\ last' = [op |-> "train",
                         args |-> [input |-> input, desiredOutput |-> desiredOutput],
                         thrown |-> r.thrown, value |-> r.value]
    /\ pre' = net
    /\ calls' = calls + 1
    /\ UNCHANGED <<preDefinedWeights, batch>>

(***************************************************************************)
(* network.trainBatch(inputs, desiredOutputs, iterations, errorThreshold), *)
(* one step per part of its loop.  While it runs no other call is made.    *)
(***************************************************************************)
\* the condition of the for loop: i < iterations && error > errorThreshold
LoopCondition(i, iterations, error, errorThreshold) ==
    LtNum(Int2Num(i), iterations) /\ GtNum(error, errorThreshold)

\* mutant: surplus desired outputs are accepted
CountsMatchAtLeast(inputs, desiredOutputs) == Len(inputs) <= Len(desiredOutputs)

\* the validation of trainBatch: inputs.length !== desiredOutputs.length throws
CountsMatch(inputs, desiredOutputs) == Len(inputs) = Len(desiredOutputs)

\* mutant: the sum is divided by the number of pairs alone
MeanErrorPerPair(error, pairs, outputLayerSize) == DivByCount(error, pairs)

\* error /= inputs.length * outputLayerSize
MeanError(error, pairs, outputLayerSize) ==
    DivByCount(error, pairs * outputLayerSize)

BatchResult(args, thrown, value, executed, means, iterStart) ==
    [op |-> "trainBatch", args |-> args, thrown |-> thrown, value |-> value,
     executed |-> executed, means |-> means, iterStart |-> iterStart]

\* the call, its validation, the defaults and the first test of the loop
TrainBatchBegin ==
    /\ CanCall
    /\ Ready(net)
    /\ \E a \in BatchCalls :
         LET iterations == OrDefault(a.iterations, One)
             errorThreshold == OrDefault(a.errorThreshold, DefaultErrorThreshold)
         IN  IF ~CountsMatch(a.inputs, a.desiredOutputs)
             THEN /\ last' = BatchResult(a, CountMismatch, Undefined, 0, <<>>, net)
                  /\ batch' = Idle
             ELSE IF LoopCondition(0, iterations, PosInf, errorThreshold)
             THEN /\ last' = BatchResult(a, "running", Undefined, 0, <<>>, net)
                  /\ batch' = [active |-> TRUE, args |-> a,
                               iterations |-> iterations,
                               errorThreshold |-> errorThreshold,
                               i |-> 0, k |-> 0, error |-> Zero,
                               means |-> <<>>, iterStart |-> net]
             ELSE /\ last' = BatchResult(a, NoError, PosInf, 0, <<>>, net)
                  /\ batch' = Idle
    /\ pre' = net
    /\ calls' = calls + 1
    /\ UNCHANGED <<net, preDefinedWeights>>

\* the body of the inner loop for pair k: _feed, _backpropagate,
\* _updateWeightsInNetwork(false), error += calculateSumSquaredError
TrainBatchPair ==
    /\ batch.active
    /\ batch.k < Len(batch.args.inputs)
    /\ Ready(net)
    /\ LET input == batch.args.inputs[batch.k + 1]
           desiredOutput == batch.args.desiredOutputs[batch.k + 1]
           f == Feed(net, input)
           b == Backpropagate(f.net, desiredOutput)
       IN  IF f.thrown # NoError
           THEN /\ net' = f.net
                /\ last' = BatchResult(batch.args, f.thrown, Undefined, batch.i,
                                       batch.means, batch.iterStart)
                /\ batch' = Idle
           ELSE IF b.thrown # NoError
           THEN /\ net' = b.net
                /\ last' = BatchResult(batch.args, b.thrown, Undefined, batch.i,
                                       batch.means, batch.iterStart)
                /\ batch' = Idle
           ELSE /\ net' = UpdateWeightsInNetwork(b.net, FALSE)
                /\ batch' = [batch EXCEPT
                                !.k = @ + 1,
                                !.error = AddNum(@, CalculateSumSquaredError(
                                                        b.net, desiredOutput))]
                /\ last' = last
    /\ UNCHANGED <<preDefinedWeights, pre, calls>>

\* the end of an iteration: the mean, the release, i++, and the test of the
\* loop, which starts the next iteration (error = 0) or returns the error
TrainBatchEndIteration ==
    /\ batch.active
    /\ batch.k = Len(batch.args.inputs)
    /\ LET error == MeanError(batch.error, Len(batch.args.inputs),
                              LayerSize(net, NumLayers(net)))
           released == ReleaseWeightUpdatesInNetwork(net)
           i == batch.i + 1
           means == Append(batch.means, error)
       IN  /\ net' = released
           /\ IF LoopCondition(i, batch.iterations, error, batch.errorThreshold)
              THEN /\ batch' = [batch EXCEPT !.i = i, !.k = 0, !.error = Zero,
                                             !.means = means, !.iterStart = released]
                   /\ last' = [last EXCEPT !.executed = i, !.means = means]
              ELSE /\ batch' = Idle
                   /\ last' = BatchResult(batch.args, NoError, error, i, means,
                                          batch.iterStart)
    /\ UNCHANGED <<preDefinedWeights, pre, calls>>

Next ==
    \/ Construct
    \/ FromJsonCall
    \/ PredictCall
    \/ TrainCall
    \/ TrainBatchBegin
    \/ TrainBatchPair
    \/ TrainBatchEndIteration

Spec == Init /\ [][Next]_vars

(***************************************************************************)
(* Observations used by the properties                                     *)
(***************************************************************************)
Weights(n) == [c \in Connections(n) |-> ConnectionAt(n, c).weight]
Pendings(n) == [c \in Connections(n) |-> ConnectionAt(n, c).weightUpdatePending]
Deltas(n) ==
    [k \in DOMAIN n.layers |->
        [i \in DOMAIN n.layers[k].neurons |-> n.layers[k].neurons[i].delta]]
Activations(n) ==
    [k \in DOMAIN n.layers |->
        [i \in DOMAIN n.layers[k].neurons |-> n.layers[k].neurons[i].activation]]

ValidInput(n, x) == Len(x) = LayerSize(n, 1)
ValidDesired(n, d) == Len(d) = LayerSize(n, NumLayers(n))

\* the caller is between two public calls
Between == ~batch.active

MismatchThrown == last.thrown \in {SizeMismatch, CountMismatch}

\* the last call was trainBatch and it has returned a value
BatchReturned == last.op = "trainBatch" /\ ~batch.active /\ last.thrown = NoError

(***************************************************************************)
(* C1.  Round trip: for every network n and every input x of the right     *)
(* length, fromJson(JSON.stringify(n)).predict(x) equals n.predict(x).     *)
(***************************************************************************)
C1_RoundTripPredict ==
    (Between /\ Ready(net)) =>
        \A x \in InputVectors :
            ValidInput(net, x) =>
                LET r == FromJson(Stringify(net), Zero)
                IN  /\ r.thrown = NoError
                    /\ Predict(r.net, x).value = Predict(net, x).value

(***************************************************************************)
(* C2.  trainBatch with iterations = 0 and lists of equal length runs no   *)
(* iteration: every weight is unchanged and the call returns +Infinity.    *)
(***************************************************************************)
C2_ZeroIterations ==
    (/\ last.op = "trainBatch"
     /\ last.args.iterations = Zero
     /\ Len(last.args.inputs) = Len(last.args.desiredOutputs))
    => /\ ~batch.active
       /\ last.thrown = NoError
       /\ last.value = PosInf
       /\ last.executed = 0
       /\ Weights(net) = Weights(pre)

(***************************************************************************)
(* C3.  Original statement: whenever predict, train or trainBatch throws a *)
(* size or count mismatch, every input, activation, delta, weight and      *)
(* pendingUpdate still has its value from before the call.                 *)
(***************************************************************************)
C3_NothingMutatedOnError ==
    (last.op \in {"predict", "train", "trainBatch"} /\ MismatchThrown)
    => net = pre

(***************************************************************************)
(* C3, amended.  Whenever predict, train or trainBatch throws a size or    *)
(* count mismatch, every connection weight still has its value from before *)
(* the call; when the call is predict or train, every delta and every      *)
(* pendingUpdate has too.                                                  *)
(***************************************************************************)
C3_WeightsKeptOnError ==
    (last.op \in {"predict", "train", "trainBatch"} /\ MismatchThrown)
    => /\ Weights(net) = Weights(pre)
       /\ last.op \in {"predict", "train"} =>
             (Deltas(net) = Deltas(pre) /\ Pendings(net) = Pendings(pre))

\* a trainBatch that threw on a later pair, after deferring updates
C3_Witness ==
    /\ last.op = "trainBatch"
    /\ last.thrown = SizeMismatch
    /\ Pendings(net) # Pendings(pre)

(***************************************************************************)
(* C4.  predict changes no weight, no pendingUpdate and no delta, and a    *)
(* predict with input x returns the same vector whatever predict call,     *)
(* successful or failed, came just before it.                              *)
(***************************************************************************)
C4_PredictPure ==
    /\ last.op = "predict" =>
          /\ Weights(net) = Weights(pre)
          /\ Pendings(net) = Pendings(pre)
          /\ Deltas(net) = Deltas(pre)
    /\ (Between /\ Ready(net)) =>
          \A x \in InputVectors :
              ValidInput(net, x) =>
                  \A y \in InputVectors :
                      Predict(Predict(net, y).net, x).value = Predict(net, x).value

\* a successful predict on a network that still held an earlier pass's values
C4_Witness ==
    /\ last.op = "predict"
    /\ last.thrown = NoError
    /\ \E k \in DOMAIN pre.layers : \E i \in DOMAIN pre.layers[k].neurons :
          pre.layers[k].neurons[i].input # Zero

(***************************************************************************)
(* C5.  From the same network state, train(x, d) and                       *)
(* trainBatch([x], [d], 1) leave every connection with the same weight and *)
(* return the same error.                                                  *)
(***************************************************************************)
C5_OnlineBatchEquivalence ==
    (/\ BatchReturned
     /\ Len(last.args.inputs) = 1
     /\ last.args.iterations = One)
    => LET t == Train(pre, last.args.inputs[1], last.args.desiredOutputs[1])
       IN  /\ t.thrown = NoError
           /\ Weights(net) = Weights(t.net)
           /\ last.value = t.value

(***************************************************************************)
(* C6.  Within one trainBatch iteration no weight changes before the       *)
(* release, and the weight after the release is the weight at the start of *)
(* the iteration plus the sum of that iteration's per-pair updates.        *)
(***************************************************************************)
\* the update pair (x, d) computes for connection c from the weights of n0
PairUpdate(n0, x, d, c) ==
    SubNum(ConnectionAt(Train(n0, x, d).net, c).weight, ConnectionAt(n0, c).weight)

RECURSIVE SumPairUpdates(_, _, _, _, _)
SumPairUpdates(n0, inputs, desiredOutputs, c, k) ==
    IF k > Len(inputs) THEN Zero
    ELSE AddNum(PairUpdate(n0, inputs[k], desiredOutputs[k], c),
                SumPairUpdates(n0, inputs, desiredOutputs, c, k + 1))

C6_TrueBatchSemantics ==
    /\ batch.active => Weights(net) = Weights(batch.iterStart)
    /\ (BatchReturned /\ last.executed > 0) =>
          \A c \in Connections(net) :
              ConnectionAt(net, c).weight =
                  AddNum(ConnectionAt(last.iterStart, c).weight,
                         SumPairUpdates(last.iterStart, last.args.inputs,
                                        last.args.desiredOutputs, c, 1))

(***************************************************************************)
(* C7.  The value trainBatch returns is the mean error of the last         *)
(* iteration it ran: the sum over the pairs of the output layer's          *)
(* sum-squared error, divided by (pairs * output layer size), all measured *)
(* with the weights of the start of that iteration.                        *)
(***************************************************************************)
RECURSIVE SumPairErrors(_, _, _, _)
SumPairErrors(n0, inputs, desiredOutputs, k) ==
    IF k > Len(inputs) THEN Zero
    ELSE AddNum(CalculateSumSquaredError(Feed(n0, inputs[k]).net, desiredOutputs[k]),
                SumPairErrors(n0, inputs, desiredOutputs, k + 1))

C7_MeanErrorOfLastIteration ==
    (BatchReturned /\ last.executed > 0) =>
        last.value =
            DivByCount(SumPairErrors(last.iterStart, last.args.inputs,
                                     last.args.desiredOutputs, 1),
                       Len(last.args.inputs) * LayerSize(net, NumLayers(net)))

\* a returned trainBatch of two pairs whose second iteration started from
\* weights the first one changed
C7_Witness ==
    /\ BatchReturned
    /\ Len(last.args.inputs) = 2
    /\ last.executed = 2
    /\ Weights(last.iterStart) # Weights(pre)
    /\ IsFinite(last.value)
    /\ last.value # Zero

(***************************************************************************)
(* C8.  predict with an input whose length differs from the input layer's  *)
(* size throws the size mismatch and changes no weight and no              *)
(* pendingUpdate.                                                          *)
(***************************************************************************)
C8_PredictSizeMismatch ==
    (last.op = "predict" /\ ~ValidInput(pre, last.args.input))
    => /\ last.thrown = SizeMismatch
       /\ Weights(net) = Weights(pre)
       /\ Pendings(net) = Pendings(pre)

\* a failed predict on a network that holds deferred updates and non-zero weights
C8_Witness ==
    /\ last.op = "predict"
    /\ ~ValidInput(pre, last.args.input)
    /\ \E c \in Connections(pre) : ConnectionAt(pre, c).weightUpdatePending # Zero

(***************************************************************************)
(* C9.  trainBatch with inputs.length # desiredOutputs.length throws the   *)
(* count mismatch before any pass, update or release: the whole network    *)
(* state is unchanged.                                                     *)
(***************************************************************************)
C9_CountMismatch ==
    (/\ last.op = "trainBatch"
     /\ Len(last.args.inputs) # Len(last.args.desiredOutputs))
    => /\ last.thrown = CountMismatch
       /\ ~batch.active
       /\ net = pre

\* the count mismatch on a network an earlier pass has left values in
C9_Witness ==
    /\ last.op = "trainBatch"
    /\ last.thrown = CountMismatch
    /\ \E k \in DOMAIN net.layers : \E i \in DOMAIN net.layers[k].neurons :
          net.layers[k].neurons[i].activation # Zero

(***************************************************************************)
(* C10.  Original statement: fromJson throws the unknown-activation error  *)
(* whenever any layer of the snapshot names a function outside the         *)
(* catalogue, and then returns no network.                                 *)
(***************************************************************************)
C10_AnyLayerNameChecked ==
    (/\ last.op = "fromJson"
     /\ \E k \in DOMAIN last.args.doc.layers :
           last.args.doc.layers[k].activationFunction \notin Catalogue)
    => (last.thrown = UnknownActivation /\ net = pre)

(***************************************************************************)
(* C10, amended.  fromJson throws the unknown-activation error exactly     *)
(* when the first hidden layer or the output layer of the snapshot names a *)
(* function outside the catalogue (the names of the input layer and of the *)
(* other hidden layers are not read), and then returns no network.         *)
(***************************************************************************)
C10_ReadNamesChecked ==
    last.op = "fromJson" =>
        LET layers == last.args.doc.layers
            L == Len(layers)
            readNames == {layers[k].activationFunction : k \in {2, L}}
        IN  /\ last.thrown = UnknownActivation <=> ~(readNames \subseteq Catalogue)
            /\ last.thrown = UnknownActivation => net = pre
            /\ last.thrown = NoError => HasNet(net)

\* an unknown name in the output layer: the call threw
C10_Witness ==
    /\ last.op = "fromJson"
    /\ last.thrown = UnknownActivation
    /\ last.args.doc.layers[Len(last.args.doc.layers)].activationFunction
           \notin Catalogue

(***************************************************************************)
(* C11.  In every network, built by the constructor or by fromJson, the    *)
(* first layer uses Identity, every hidden layer uses the configured       *)
(* hidden function and the last layer is an OutputLayer using the          *)
(* configured output function; no later call replaces a layer's function.  *)
(***************************************************************************)
\* the function and the kind of every layer
LayerFunctions(n) ==
    [k \in DOMAIN n.layers |->
        [activationFunction |-> n.layers[k].activationFunction,
         kind |-> n.layers[k].kind]]

\* what the constructor is handed, or HyperbolicTangent when it is handed nothing
Configured(af) == IF af = NoActivationFunction THEN HyperbolicTangent ELSE af

\* the layers of n use hiddenAF and outputAF as the constructor lays them out
UsesFunctions(n, hiddenAF, outputAF) ==
    LET L == NumLayers(n)
    IN  /\ n.layers[1].activationFunction = Identity
        /\ \A k \in 1..(L - 1) : n.layers[k].kind = "Layer"
        /\ \A k \in 2..(L - 1) : n.layers[k].activationFunction = hiddenAF
        /\ n.layers[L].kind = "OutputLayer"
        /\ n.layers[L].activationFunction = outputAF

C11_LayerFunctions ==
    HasNet(net) =>
        /\ last.op = "construct" =>
              UsesFunctions(net,
                  Configured(last.args.options.hiddenLayerActivationFunction),
                  Configured(last.args.options.outputLayerActivationFunction))
        /\ (last.op = "fromJson" /\ last.thrown = NoError) =>
              LET layers == last.args.doc.layers
                  hiddenName == IF Len(layers) > 2 THEN layers[2].activationFunction
                                ELSE "Identity"
                  outputName == layers[Len(layers)].activationFunction
              IN  /\ UsesFunctions(net,
                         IF hiddenName = "RectifiedLinearUnit"
                         THEN RectifiedLinearUnit(Undefined)
                         ELSE ActivationFunction(hiddenName),
                         IF outputName = "RectifiedLinearUnit"
                         THEN RectifiedLinearUnit(Undefined)
                         ELSE ActivationFunction(outputName))
                  /\ NumLayers(net) = Len(layers)
        /\ (last.op \in {"predict", "train", "trainBatch"} \/ last.thrown # NoError) =>
              LayerFunctions(net) = LayerFunctions(pre)

\* a network with a hidden layer restored from a text whose input layer
\* names another function than Identity
C11_Witness ==
    /\ last.op = "fromJson"
    /\ last.thrown = NoError
    /\ Len(last.args.doc.layers) > 2
    /\ last.args.doc.layers[1].activationFunction # "Identity"
    /\ net.layers[1].activationFunction = Identity

(***************************************************************************)
(* C12.  In every reachable state each neuron of a layer but the last owns *)
(* exactly one connection to each neuron of the next layer, in order, and  *)
(* no other; output neurons own none; predict, train and trainBatch,       *)
(* failed or not, add and remove no neuron and no connection.              *)
(***************************************************************************)
\* the targets of every neuron's connections
Topology(n) ==
    [k \in DOMAIN n.layers |->
        [i \in DOMAIN n.layers[k].neurons |->
            [j \in DOMAIN n.layers[k].neurons[i].connections |->
                n.layers[k].neurons[i].connections[j].targetNeuron]]]

Dense(n) ==
    \A k \in DOMAIN n.layers : \A i \in DOMAIN n.layers[k].neurons :
        Topology(n)[k][i] =
            IF k = NumLayers(n) THEN <<>>
            ELSE [m \in 1..LayerSize(n, k + 1) |-> <<k + 1, m>>]

C12_TopologyInvariant ==
    HasNet(net) =>
        /\ Dense(net)
        /\ Cardinality(Connections(net)) =
              LET Count[k \in 0..(NumLayers(net) - 1)] ==
                      IF k = 0 THEN 0
                      ELSE Count[k - 1] + LayerSize(net, k) * LayerSize(net, k + 1)
              IN  Count[NumLayers(net) - 1]
        /\ last.op \in {"predict", "train", "trainBatch"} =>
              Topology(net) = Topology(pre)

\* a trainBatch that failed on a later pair, on a network with a hidden layer
C12_Witness ==
    /\ last.op = "trainBatch"
    /\ last.thrown = SizeMismatch
    /\ NumLayers(net) = 3
    /\ Pendings(net) # Pendings(pre)

(***************************************************************************)
(* C13.  After train(x, d) returns, every connection's weight is its       *)
(* weight before the call plus learningRate * (delta of the target neuron) *)
(* * (activation of the source neuron), with the deltas and activations of *)
(* this call, computed from the weights before the call; no pendingUpdate  *)
(* is touched; and the next pass reads the updated weights.                *)
(***************************************************************************)
\* input[1] * weight(1 -> m) + ... + input[i] * weight(i -> m) in a network
\* without hidden layer
RECURSIVE WeightedSum(_, _, _, _)
WeightedSum(n, input, m, i) ==
    IF i = 0 THEN Zero
    ELSE AddNum(WeightedSum(n, input, m, i - 1),
                MulNum(input[i], n.layers[1].neurons[i].connections[m].weight))

C13_DeltaRule ==
    (last.op = "train" /\ last.thrown = NoError) =>
        LET b == Backpropagate(Feed(pre, last.args.input).net,
                               last.args.desiredOutput).net
        IN  /\ Deltas(net) = Deltas(b)
            /\ Activations(net) = Activations(b)
            /\ \A c \in Connections(net) :
                  LET t == ConnectionAt(net, c).targetNeuron
                  IN  ConnectionAt(net, c).weight =
                          AddNum(ConnectionAt(pre, c).weight,
                                 MulNum(MulNum(net.learningRate,
                                               NeuronAt(net, t[1], t[2]).delta),
                                        NeuronAt(net, c[1], c[2]).activation))
            /\ Pendings(net) = Pendings(pre)
            /\ (/\ Ready(net)
                /\ NumLayers(net) = 2
                /\ net.layers[2].activationFunction = Identity) =>
                  \A x \in InputVectors :
                      ValidInput(net, x) =>
                          Predict(net, x).value =
                              [m \in 1..LayerSize(net, 2) |->
                                  WeightedSum(net, x, m, Len(x))]

\* a train call that changed the weights of a network with a hidden layer
C13_Witness ==
    /\ last.op = "train"
    /\ last.thrown = NoError
    /\ NumLayers(net) = 3
    /\ \A c \in Connections(net) : ConnectionAt(net, c).weight # ConnectionAt(pre, c).weight

(***************************************************************************)
(* C14.  A network constructed with given layer sizes, options and a       *)
(* numeric seed has the same initial weights whenever it is constructed:   *)
(* the weights of the network just constructed equal those of the same     *)
(* construction made when the program starts, whatever entropy the         *)
(* platform offers.                                                        *)
(***************************************************************************)
C14_SeededConstruction ==
    (last.op = "construct" /\ last.args.options.seed # Undefined) =>
        \A e \in 0..MaxRandomSeed :
            LET t == last.args.topology
                r == FeedforwardNeuralNetwork(t[1], t[2], t[3], last.args.options,
                                              <<>>, Int2Num(e))
            IN  Weights(net) = Weights(r.net)

(***************************************************************************)
(* C15.  For every network n, fromJson(JSON.stringify(n)) has the same     *)
(* number of layers, the same size of each layer, the same learningRate,   *)
(* the same seed and the same hidden-layer and output-layer activation     *)
(* functions as n.                                                         *)
(***************************************************************************)
C15_RestoredTopologyAndOptions ==
    (Between /\ HasNet(net)) =>
        LET r == FromJson(Stringify(net), Zero)
        IN  /\ r.thrown = NoError
            /\ NumLayers(r.net) = NumLayers(net)
            /\ \A k \in DOMAIN net.layers : LayerSize(r.net, k) = LayerSize(net, k)
            /\ r.net.learningRate = net.learningRate
            /\ r.net.seed = net.seed
            /\ \A k \in 2..NumLayers(net) :
                  r.net.layers[k].activationFunction = net.layers[k].activationFunction

(***************************************************************************)
(* C16.  The network's learning rate is the learningRate supplied in the   *)
(* options, for every number supplied, and 0.3 only when none is supplied; *)
(* no predict, train or trainBatch call changes it.                        *)
(***************************************************************************)
C16_LearningRate ==
    /\ last.op = "construct" =>
          net.learningRate =
              IF last.args.options.learningRate = Undefined
              THEN DefaultLearningRate
              ELSE last.args.options.learningRate
    /\ last.op \in {"predict", "train", "trainBatch"} =>
          net.learningRate = pre.learningRate

(***************************************************************************)
(* C17.  A trainBatch call that passed the count check and returned has    *)
(* run at least one and at most `iterations` iterations (1 when the        *)
(* argument is omitted), each ending with one release of the deferred      *)
(* updates.                                                                *)
(***************************************************************************)
C17_IterationCount ==
    (BatchReturned /\ CountsMatch(last.args.inputs, last.args.desiredOutputs)) =>
        LET iterations == IF last.args.iterations = Undefined THEN One
                          ELSE last.args.iterations
        IN  /\ last.executed >= 1
            /\ ~GtNum(Int2Num(last.executed), iterations)
            /\ Len(last.means) = last.executed
            /\ \A c \in Connections(net) : ConnectionAt(net, c).weightUpdatePending = Zero

(***************************************************************************)
(* C18.  trainBatch stops early on the caller's threshold: with the        *)
(* supplied errorThreshold (0 included; 0.005 only when the argument is    *)
(* omitted), iteration k + 1 is executed exactly when k < iterations and   *)
(* the mean error of iteration k is strictly greater than the threshold.   *)
(***************************************************************************)
C18_ThresholdHonoured ==
    BatchReturned =>
        LET iterations == OrDefault(last.args.iterations, One)
            errorThreshold == IF last.args.errorThreshold = Undefined
                              THEN DefaultErrorThreshold
                              ELSE last.args.errorThreshold
        IN  \A k \in 1..last.executed :
                (k < last.executed) <=>
                    (/\ LtNum(Int2Num(k), iterations)
                     /\ GtNum(last.means[k], errorThreshold))

(***************************************************************************)
(* C19.  fromJson gives the connection (layer i, source s, target t) of    *)
(* the restored network exactly the weight the snapshot records for        *)
(* (i, s, t).                                                              *)
(***************************************************************************)
C19_RestoredInOrder ==
    (last.op = "fromJson" /\ last.thrown = NoError) =>
        \A c \in Connections(net) :
            ConnectionAt(net, c).weight =
                last.args.doc.layers[c[1]].neurons[c[2]].connections[c[3]].weight

(***************************************************************************)
(* C20.  After a backpropagation every output neuron's delta is            *)
(* derivative(input) * (desired - activation), every hidden neuron's delta *)
(* is derivative(input) * the sum over its connections of (the target's    *)
(* delta of this same backpropagation * weight), and the deltas of the     *)
(* input layer are never written.                                          *)
(***************************************************************************)
\* the sum over connections 1..j of neuron i of layer k: delta of the target
\* in n times the weight in w
RECURSIVE SumWeightedDeltas(_, _, _, _, _)
SumWeightedDeltas(n, w, k, i, j) ==
    IF j = 0 THEN Zero
    ELSE AddNum(SumWeightedDeltas(n, w, k, i, j - 1),
                MulNum(n.layers[k + 1].neurons[j].delta,
                       w.layers[k].neurons[i].connections[j].weight))

\* the deltas n holds are those of one backpropagation of desiredOutput over
\* the weights of w
DeltasDownstreamFirst(n, w, desiredOutput) ==
    LET L == NumLayers(n)
    IN  /\ \A i \in 1..LayerSize(n, L) :
              n.layers[L].neurons[i].delta =
                  MulNum(evaluateDerivative(n.layers[L].activationFunction,
                                            n.layers[L].neurons[i].input),
                         SubNum(desiredOutput[i], n.layers[L].neurons[i].activation))
        /\ \A k \in 2..(L - 1) : \A i \in 1..LayerSize(n, k) :
              n.layers[k].neurons[i].delta =
                  MulNum(evaluateDerivative(n.layers[k].activationFunction,
                                            n.layers[k].neurons[i].input),
                         SumWeightedDeltas(n, w, k, i, LayerSize(n, k + 1)))

C20_BackpropagationOrder ==
    /\ HasNet(net) =>
          \A i \in 1..LayerSize(net, 1) : net.layers[1].neurons[i].delta = Zero
    /\ (last.op = "train" /\ last.thrown = NoError) =>
          DeltasDownstreamFirst(net, pre, last.args.desiredOutput)
    /\ (batch.active /\ batch.k > 0) =>
          DeltasDownstreamFirst(net, net, batch.args.desiredOutputs[batch.k])

\* a train call on a network with a hidden layer that left a hidden neuron
\* with a non-zero delta
C20_Witness ==
    /\ last.op = "train"
    /\ last.thrown = NoError
    /\ NumLayers(net) >= 3
    /\ net.layers[2].neurons[1].delta # Zero

(***************************************************************************)
(* C21.  After a forward pass of input x, input neuron i holds the input   *)
(* x[i], every neuron of a layer k >= 2 holds as input the sum over the    *)
(* neurons s of layer k - 1 of (activation of s * weight of s -> it), and  *)
(* every neuron's activation is its layer's function of its input: nothing *)
(* of an earlier pass remains.                                             *)
(***************************************************************************)
\* the sum over neurons 1..s of layer k - 1 of activation in n times the
\* weight, in w, of the connection to neuron m of layer k
RECURSIVE SumWeightedActivations(_, _, _, _, _)
SumWeightedActivations(n, w, k, m, s) ==
    IF s = 0 THEN Zero
    ELSE AddNum(SumWeightedActivations(n, w, k, m, s - 1),
                MulNum(n.layers[k - 1].neurons[s].activation,
                       w.layers[k - 1].neurons[s].connections[m].weight))

\* the inputs and activations n holds are those of one forward pass of input
\* over the weights of w
LayerSynchronous(n, w, input) ==
    /\ \A i \in 1..LayerSize(n, 1) : n.layers[1].neurons[i].input = input[i]
    /\ \A k \in 2..NumLayers(n) : \A m \in 1..LayerSize(n, k) :
          n.layers[k].neurons[m].input =
              SumWeightedActivations(n, w, k, m, LayerSize(n, k - 1))
    /\ \A k \in DOMAIN n.layers : \A i \in 1..LayerSize(n, k) :
          n.layers[k].neurons[i].activation =
              evaluate(n.layers[k].activationFunction, n.layers[k].neurons[i].input)

C21_ForwardPass ==
    /\ (last.op = "predict" /\ last.thrown = NoError) =>
          LayerSynchronous(net, net, last.args.input)
    /\ (last.op = "train" /\ last.thrown = NoError) =>
          LayerSynchronous(net, pre, last.args.input)
    /\ (batch.active /\ batch.k > 0) =>
          LayerSynchronous(net, net, batch.args.inputs[batch.k])

\* a predict on a network with a hidden layer whose neurons still held the
\* inputs of an earlier pass
C21_Witness ==
    /\ last.op = "predict"
    /\ last.thrown = NoError
    /\ NumLayers(net) >= 3
    /\ pre.layers[2].neurons[1].input # Zero
    /\ net.layers[2].neurons[1].input # Zero

(***************************************************************************)
(* C22.  On every connection the program can hold: updateWeight(a, false)  *)
(* adds a to pendingUpdate and leaves the weight; updateWeight(a, true)    *)
(* adds a to the weight and leaves pendingUpdate; releaseWeightUpdates     *)
(* adds the whole pendingUpdate to the weight and leaves pendingUpdate 0,  *)
(* so that a second release in a row changes nothing.                      *)
(***************************************************************************)
Addends == {Zero, One, Half, <<0 - 1, 10>>, NaN}

C22_StagedAndCommitted ==
    HasNet(net) =>
        \A c \in Connections(net) : \A a \in Addends :
            LET x == ConnectionAt(net, c)
                deferred == ConnUpdateWeight(x, a, FALSE)
                immediate == ConnUpdateWeight(x, a, TRUE)
                released == ConnReleaseWeightUpdates(deferred)
            IN  /\ deferred.weight = x.weight
                /\ deferred.weightUpdatePending = AddNum(x.weightUpdatePending, a)
                /\ immediate.weight = AddNum(x.weight, a)
                /\ immediate.weightUpdatePending = x.weightUpdatePending
                /\ released.weight =
                       AddNum(x.weight, AddNum(x.weightUpdatePending, a))
                /\ released.weightUpdatePending = Zero
                /\ ConnReleaseWeightUpdates(released) = released

\* a connection that holds a deferred update while a trainBatch runs
C22_Witness ==
    /\ batch.active
    /\ batch.k > 0
    /\ \E c \in Connections(net) :
          /\ ConnectionAt(net, c).weightUpdatePending # Zero
          /\ ConnectionAt(net, c).weight # Zero

(***************************************************************************)
(* C23.  A network built by the constructor has consumed exactly one draw  *)
(* per connection, in the order layer pair outermost, source neuron next,  *)
(* target neuron innermost, and each connection's initial weight is its    *)
(* draw from [0, 0.3) minus 0.15.                                          *)
(***************************************************************************)
\* the number of connections created before connection <<k, i, j>>
RECURSIVE CreatedBefore(_, _)
CreatedBefore(n, c) ==
    IF c[1] > 1
    THEN LayerSize(n, c[1] - 1) * LayerSize(n, c[1])
         + CreatedBefore(n, <<c[1] - 1, 1, 1>>)
         + (c[2] - 1) * LayerSize(n, c[1] + 1) + (c[3] - 1)
    ELSE (c[2] - 1) * LayerSize(n, 2) + (c[3] - 1)

C23_OneDrawPerConnection ==
    last.op = "construct" =>
        /\ last.draws = Cardinality(Connections(net))
        /\ \E seed \in IF net.seed = Undefined
                        THEN {Int2Num(e) : e \in 0..MaxRandomSeed}
                        ELSE {net.seed} :
              \A c \in Connections(net) :
                  ConnectionAt(net, c).weight =
                      SubNum(PrngFloat(seed, CreatedBefore(net, c)), WeightOffset)

(***************************************************************************)
(* C24.  The output layer's updateDeltas throws the size mismatch when the *)
(* desired output's length differs from the output layer's size, before it *)
(* changes any delta; a train call that fails for this reason leaves every *)
(* weight, every pendingUpdate and every delta unchanged.                  *)
(***************************************************************************)
C24_DesiredSizeMismatch ==
    /\ (/\ HasNet(net)
        /\ net.layers[NumLayers(net)].activationFunction.name \in Evaluable) =>
          \A d \in DesiredVectors :
              ~ValidDesired(net, d) =>
                  OutputLayerUpdateDeltas(net, d) = [net |-> net, thrown |-> SizeMismatch]
    /\ (/\ last.op = "train"
        /\ ValidInput(pre, last.args.input)
        /\ ~ValidDesired(pre, last.args.desiredOutput)) =>
          /\ last.thrown = SizeMismatch
          /\ Weights(net) = Weights(pre)
          /\ Pendings(net) = Pendings(pre)
          /\ Deltas(net) = Deltas(pre)

\* a train call that failed on the desired output, on a network holding the
\* deltas of an earlier backpropagation
C24_Witness ==
    /\ last.op = "train"
    /\ last.thrown = SizeMismatch
    /\ ValidInput(pre, last.args.input)
    /\ \E i \in 1..LayerSize(pre, NumLayers(pre)) :
          pre.layers[NumLayers(pre)].neurons[i].delta # Zero

(***************************************************************************)
(* C25.  BinaryStep's derivative is 0 for every x # 0 and NaN at x = 0,    *)
(* and a train or trainBatch call with data of the right sizes on a        *)
(* network that uses BinaryStep throws nothing, also when a neuron's       *)
(* input is exactly 0.                                                     *)
(***************************************************************************)
UsesBinaryStep(n) ==
    \E k \in DOMAIN n.layers : n.layers[k].activationFunction = BinaryStep

C25_BinaryStepDerivative ==
    /\ \A x \in {Zero, One, Half, <<0 - 1, 1>>, <<0 - 1, 10>>, PosInf, NegInf, NaN} :
          evaluateDerivative(BinaryStep, x) = IF x = Zero THEN NaN ELSE Zero
    /\ (/\ last.op = "train"
        /\ UsesBinaryStep(pre)
        /\ ValidInput(pre, last.args.input)
        /\ ValidDesired(pre, last.args.desiredOutput)) => last.thrown = NoError
    /\ (/\ last.op = "trainBatch"
        /\ UsesBinaryStep(pre)
        /\ Len(last.args.inputs) = Len(last.args.desiredOutputs)
        /\ \A k \in DOMAIN last.args.inputs :
              /\ ValidInput(pre, last.args.inputs[k])
              /\ ValidDesired(pre, last.args.desiredOutputs[k])) =>
          last.thrown \in {NoError, "running"}

\* a train call that returned although an output neuron using BinaryStep
\* had the input 0 and so the delta NaN
C25_Witness ==
    /\ last.op = "train"
    /\ last.thrown = NoError
    /\ \E i \in 1..LayerSize(net, NumLayers(net)) :
          /\ net.layers[NumLayers(net)].activationFunction = BinaryStep
          /\ net.layers[NumLayers(net)].neurons[i].input = Zero
          /\ net.layers[NumLayers(net)].neurons[i].delta = NaN

(***************************************************************************)
(* C26.  Between public calls no deferred update is outstanding: whenever  *)
(* predict, train or trainBatch has returned or thrown, every connection's *)
(* pendingUpdate is 0.                                                     *)
(***************************************************************************)
C26_NoPendingBetweenCalls ==
    (Between /\ HasNet(net)) =>
        \A c \in Connections(net) : ConnectionAt(net, c).weightUpdatePending = Zero

(***************************************************************************)
(* C27.  Neuron.preDefinedWeights is empty whenever no fromJson call is in *)
(* progress, also after a fromJson that threw the unknown-activation       *)
(* error.                                                                  *)
(***************************************************************************)
C27_QueueEmpty == preDefinedWeights = <<>>

(***************************************************************************)
(* C28.  Restoring the snapshot of a network n uses each recorded weight   *)
(* for exactly one connection and draws no weight from the random source:  *)
(* the multiset of connection weights of fromJson(JSON.stringify(n))       *)
(* equals the multiset of connection weights of n.                         *)
(***************************************************************************)
\* how many connections of n carry the weight v
WeightCount(n, v) ==
    Cardinality({c \in Connections(n) : ConnectionAt(n, c).weight = v})

WeightValues(n) == {ConnectionAt(n, c).weight : c \in Connections(n)}

SameMultiset(a, b) ==
    \A v \in WeightValues(a) \cup WeightValues(b) :
        WeightCount(a, v) = WeightCount(b, v)

C28_WeightsMultiset ==
    (Between /\ HasNet(net)) =>
        LET doc == Stringify(net)
            r == FromJson(doc, Zero)
        IN  /\ r.thrown = NoError
            \* every recorded weight was taken, and every connection took one
            /\ r.queue = <<>>
            /\ Cardinality(Connections(r.net)) = Cardinality(Connections(doc))
            /\ SameMultiset(r.net, net)

(***************************************************************************)
(* C29.  The round trip preserves the behaviour of the activation          *)
(* functions: where a hidden or output layer of n uses                     *)
(* RectifiedLinearUnit(p), the same layer of fromJson(JSON.stringify(n))   *)
(* evaluates p * x and has the derivative p for x < 0.                     *)
(***************************************************************************)
C29_LeakPreserved ==
    (Between /\ HasNet(net)) =>
        LET r == FromJson(Stringify(net), Zero)
            x == Int2Num(0 - 1)
        IN  /\ r.thrown = NoError
            /\ \A k \in 2..NumLayers(net) :
                  LET af == net.layers[k].activationFunction
                      restored == r.net.layers[k].activationFunction
                  IN  af.name = "RectifiedLinearUnit" =>
                          /\ restored.name = "RectifiedLinearUnit"
                          /\ evaluate(restored, x) = MulNum(af.parameter, x)
                          /\ evaluateDerivative(restored, x) = af.parameter

(***************************************************************************)
(* C30.  Two round trips are the identity on weights: every connection     *)
(* (layer i, source s, target t) of                                        *)
(* fromJson(JSON.stringify(fromJson(JSON.stringify(n)))) has the weight of *)
(* n's connection (i, s, t).                                               *)
(***************************************************************************)
C30_DoubleRoundTrip ==
    (Between /\ HasNet(net)) =>
        LET once == FromJson(Stringify(net), Zero)
            twice == FromJson(Stringify(once.net), Zero)
        IN  /\ once.thrown = NoError
            /\ twice.thrown = NoError
            /\ Connections(twice.net) = Connections(net)
            /\ \A c \in Connections(net) :
                  ConnectionAt(twice.net, c).weight = ConnectionAt(net, c).weight

=============================================================================
